---- MODULE Spec2Model ----
(***************************************************************************)
(* mini-file-server: the upload publish / download gate protocol of        *)
(* src/file_utils.py and src/file-server.py over a small file system.      *)
(*                                                                         *)
(* File names are sequences of one-character strings.  A path is a record  *)
(* [d, n]: the directory holding the entry ("up" = the uploads folder,     *)
(* "par" = its parent) and the entry's name.  Inode 0 is the inode of the  *)
(* uploads folder (a directory), file inodes are 1, 2, ...                 *)
(***************************************************************************)
EXTENDS Integers, Sequences, FiniteSets, TLC

(* ------------------------------ bounds -------------------------------- *)
BodyLen == 2
MaxTries == 2

(* Three concurrent requests: two POST /rw and one GET /rw/<name>.         *)
Uploaders == {1, 2}
Downloaders == {3}
Workers == Uploaders \cup Downloaders

(* ------------------------------ names --------------------------------- *)
NoFile == <<"<none>">>
FolderName == <<"u">>
PartSuffix == <<".", "p", "a", "r", "t">>
LockSuffix == <<".", "l", "o", "c", "k">>
OldSuffix == <<".", "o", "l", "d">>

SafeChars == {"a", "b", "t", "z", "p", "r", "l", "o", "c", "k", "d", "u",
              "_", ".", "-"}

UpHints == { <<"a", ".", "t">>, <<"a", ".", "z">>, <<" ", "a", ".", "t">>,
             <<"a">> \o PartSuffix, <<".", ".", ".">>, <<>>, NoFile }
DlHints == { <<"a", ".", "t">>, <<"a", ".", "z">> }

RECURSIVE SplitWords(_, _, _)
SplitWords(s, cur, acc) ==
    IF s = <<>> THEN (IF cur = <<>> THEN acc ELSE Append(acc, cur))
    ELSE IF Head(s) = " "
         THEN SplitWords(Tail(s), <<>>, IF cur = <<>> THEN acc ELSE Append(acc, cur))
         ELSE SplitWords(Tail(s), Append(cur, Head(s)), acc)

RECURSIVE JoinWords(_)
JoinWords(ws) ==
    IF ws = <<>> THEN <<>>
    ELSE IF Len(ws) = 1 THEN ws[1]
    ELSE ws[1] \o <<"_">> \o JoinWords(Tail(ws))

RECURSIVE LStrip(_)
LStrip(s) ==
    IF s # <<>> /\ Head(s) \in {".", "_"} THEN LStrip(Tail(s)) ELSE s

RECURSIVE RStrip(_)
RStrip(s) ==
    IF s # <<>> /\ s[Len(s)] \in {".", "_"} THEN RStrip(SubSeq(s, 1, Len(s) - 1)) ELSE s

(* werkzeug.utils.secure_filename: separators become blanks, the blank-    *)
(* separated words are joined with "_", every character outside            *)
(* [A-Za-z0-9_.-] is dropped, leading and trailing "." and "_" are cut.    *)
secure_filename(s) ==
    LET nosep == [i \in 1..Len(s) |-> IF s[i] = "/" THEN " " ELSE s[i]]
        joined == JoinWords(SplitWords(nosep, <<>>, <<>>))
        kept == SelectSeq(joined, LAMBDA c : c \in SafeChars)
    IN  RStrip(LStrip(kept))

(* pathlib: PurePath.suffix of a name, the last dot that is neither the    *)
(* first nor the last character starts the suffix.                         *)
LastDot(n) ==
    LET dots == {i \in 1..Len(n) : n[i] = "."}
    IN  IF dots = {} THEN 0 ELSE CHOOSE i \in dots : \A j \in dots : j <= i

SuffixStart(n) ==
    LET i == LastDot(n)
    IN  IF 1 < i /\ i < Len(n) THEN i ELSE Len(n) + 1

with_suffix(p, suffix) ==
    [d |-> p.d, n |-> SubSeq(p.n, 1, SuffixStart(p.n) - 1) \o suffix]

FolderPath == [d |-> "par", n |-> FolderName]

(* pathlib: Path(target_folder, name); an empty or "." name is the folder. *)
PathIn(name) ==
    IF name \in {<<>>, <<".">>} THEN FolderPath ELSE [d |-> "up", n |-> name]

(* ------------------------------ state --------------------------------- *)
VARIABLES
    dir,      \* directory entries: path -> inode
    data,     \* inode -> content (a sequence of chunks, 0 = hole)
    pc,       \* worker -> position in its handler
    hint,     \* worker -> the file name of its request
    wfd,      \* uploader's open .part inode (0 = none)
    off,      \* uploader's write offset, in chunks
    lfd,      \* worker's open lock file inode (0 = none)
    held,     \* worker holds the flock on lfd
    tries,    \* gate's failed lock attempts
    rfd,      \* downloader's open inode (0 = none)
    got,      \* downloader's received body
    res,      \* worker -> outcome of its request
    seen,     \* history: the uploads that had returned when the request arrived
    pub0,     \* history: content published under the upload's name on arrival
    after,    \* history: the uploads that had returned when the lock was taken
    gate,     \* history: the verdict of the download's readiness gate
    sawTarget, \* history: the gate found the target file when it checked
    clobber   \* history: what the stream copy of an upload did to its final name

tvars == <<dir, data, pc, hint, wfd, off, lfd, held, tries, rfd, got, res,
           seen, pub0, after, gate, sawTarget, clobber>>
hist == <<seen, pub0, after>>
ghist == <<gate, sawTarget>>

NoContent == <<-1>>

Body(w) == [i \in 1..BodyLen |-> w]

Exists(p) ==
    /\ p \in DOMAIN dir
    /\ (p.d = "up" => (FolderPath \in DOMAIN dir /\ dir[FolderPath] = 0))

FolderIsDir == FolderPath \in DOMAIN dir /\ dir[FolderPath] = 0

(* Can a file be opened or created at p: its directory must exist.         *)
DirOk(p) == p.d = "up" => FolderIsDir

UsedIn(d, a, b, c) ==
    {d[p] : p \in DOMAIN d} \cup {a[w] : w \in Workers}
      \cup {b[w] : w \in Workers} \cup {c[w] : w \in Workers}

Used == UsedIn(dir, wfd, lfd, rfd)

Fresh ==
    CHOOSE i \in 1..(Cardinality(Used) + 1) :
        i \notin Used /\ \A j \in 1..(i - 1) : j \in Used

Bind(d, p, i) == [q \in DOMAIN d \cup {p} |-> IF q = p THEN i ELSE d[q]]
Unbind(d, p) == [q \in DOMAIN d \ {p} |-> d[q]]
SetData(dt, i, c) == [j \in DOMAIN dt \cup {i} |-> IF j = i THEN c ELSE dt[j]]

(* Inodes without a name and without an open descriptor are reclaimed.     *)
Reclaim(dt, used) == [i \in DOMAIN dt \cap used |-> dt[i]]

Locked(i) == \E w \in Workers : lfd[w] = i /\ held[w]

(* f.write(chunk) at the writer's own offset; a gap reads as zeros.        *)
WriteAt(c, o, x) ==
    [i \in 1..(IF Len(c) > o + 1 THEN Len(c) ELSE o + 1) |->
        IF i = o + 1 THEN x ELSE IF i <= Len(c) THEN c[i] ELSE 0]

TInit ==
    /\ dir = (FolderPath :> 0)
    /\ data = << >>
    /\ pc = [w \in Workers |-> "idle"]
    /\ hint = [w \in Workers |-> <<>>]
    /\ wfd = [w \in Workers |-> 0]
    /\ off = [w \in Workers |-> 0]
    /\ lfd = [w \in Workers |-> 0]
    /\ held = [w \in Workers |-> FALSE]
    /\ tries = [w \in Workers |-> 0]
    /\ rfd = [w \in Workers |-> 0]
    /\ got = [w \in Workers |-> <<>>]
    /\ res = [w \in Workers |-> "none"]
    /\ seen = [w \in Workers |-> {}]
    /\ pub0 = [w \in Workers |-> NoContent]
    /\ after = [w \in Workers |-> {}]
    /\ gate = [w \in Workers |-> "none"]
    /\ sawTarget = [w \in Workers |-> FALSE]
    /\ clobber = [w \in Workers |-> {}]

(* --------------------------- request names ---------------------------- *)
FileName(w) == secure_filename(hint[w])
Target(w) == PathIn(FileName(w))
Temp(w) == with_suffix(Target(w), PartSuffix)
LockPath(w) == with_suffix(Target(w), LockSuffix)
OldPath(w) == with_suffix(Target(w), OldSuffix)

Gc(dt) == Reclaim(dt, UsedIn(dir', wfd', lfd', rfd'))

(* The handler ends: descriptors are closed, a held lock is released.      *)
Finish(w, r) ==
    /\ pc' = [pc EXCEPT ![w] = "done"]
    /\ res' = [res EXCEPT ![w] = r]
    /\ wfd' = [wfd EXCEPT ![w] = 0]
    /\ lfd' = [lfd EXCEPT ![w] = 0]
    /\ held' = [held EXCEPT ![w] = FALSE]
    /\ rfd' = [rfd EXCEPT ![w] = 0]

Goto(w, l) == pc' = [pc EXCEPT ![w] = l]

Returned == {u \in Uploaders : pc[u] = "done"}
Content(p) == IF Exists(p) /\ dir[p] # 0 THEN data[dir[p]] ELSE NoContent

(* ------------------------------ upload -------------------------------- *)
(* POST /rw arrives with a file part named h (NoFile: no file part).       *)
StartUpload(w, h) ==
    /\ pc[w] = "idle"
    /\ hint' = [hint EXCEPT ![w] = h]
    /\ Goto(w, "u_check")
    /\ seen' = [seen EXCEPT ![w] = Returned]
    /\ pub0' = [pub0 EXCEPT ![w] = Content(PathIn(secure_filename(h)))]
    /\ UNCHANGED <<dir, data, wfd, off, lfd, held, tries, rfd, got, res, after>>
    /\ UNCHANGED ghist

(* file_transfer: the existence check on the file name as sent.            *)
UpCheck(w) ==
    /\ pc[w] = "u_check"
    /\ IF hint[w] = NoFile THEN Finish(w, "Error")
       ELSE IF Exists(PathIn(hint[w])) THEN Finish(w, "Rejected")
       ELSE /\ Goto(w, "u_open")
            /\ UNCHANGED <<res, wfd, lfd, held, rfd>>
    /\ UNCHANGED <<dir, data, hint, off, tries, got>>

(* post_request_file_wait: the name test, then temp_file.open('wb').       *)
UpOpen(w) ==
    /\ pc[w] = "u_open"
    /\ IF hint[w] = <<>> THEN
            Finish(w, "Rejected") /\ UNCHANGED <<dir, data, off>>
       ELSE IF ~DirOk(Temp(w)) \/ (Temp(w) \in DOMAIN dir /\ dir[Temp(w)] = 0) THEN
            Finish(w, "Error") /\ UNCHANGED <<dir, data, off>>
       ELSE LET ino == IF Temp(w) \in DOMAIN dir THEN dir[Temp(w)] ELSE Fresh IN
            /\ dir' = Bind(dir, Temp(w), ino)
            /\ wfd' = [wfd EXCEPT ![w] = ino]
            /\ off' = [off EXCEPT ![w] = 0]
            /\ Goto(w, "u_write")
            /\ UNCHANGED <<res, lfd, held, rfd>>
            /\ data' = Gc(SetData(data, ino, <<>>))
    /\ UNCHANGED <<hint, tries, got>>

(* One chunk of the stream is written; after the last one the file is      *)
(* closed.                                                                 *)
UpWrite(w) ==
    /\ pc[w] = "u_write"
    /\ off' = [off EXCEPT ![w] = off[w] + 1]
    /\ IF off[w] + 1 = BodyLen
       THEN wfd' = [wfd EXCEPT ![w] = 0] /\ Goto(w, "u_lkopen")
       ELSE UNCHANGED <<wfd, pc>>
    /\ UNCHANGED <<dir, hint, lfd, held, tries, rfd, got, res>>
    /\ data' = Gc(SetData(data, wfd[w], WriteAt(data[wfd[w]], off[w], Body(w)[off[w] + 1])))

(* uploaded_file.stream.read or f.write raises: the exception leaves        *)
(* post_request_file_wait, the with statement closes the file.             *)
UpFail(w) ==
    /\ pc[w] = "u_write"
    /\ Finish(w, "Failed")
    /\ UNCHANGED <<dir, hint, off, tries, got>>
    /\ data' = Gc(data)

(* History of the stream copy: did this step change what is under the      *)
(* upload's final name, and is the .part file there when the copy fails.   *)
ContentIn(d, dt, p) ==
    IF /\ p \in DOMAIN d
       /\ (p.d = "up" => (FolderPath \in DOMAIN d /\ d[FolderPath] = 0))
       /\ d[p] # 0
    THEN dt[d[p]] ELSE NoContent

StreamTrace(w) ==
    LET t == Target(w)
        p == Temp(w)
    IN  clobber' = [clobber EXCEPT ![w] = @
            \cup (IF ContentIn(dir', data', t) # ContentIn(dir, data, t)
                  THEN {"changed"} ELSE {})
            \cup (IF res'[w] = "Failed" /\ p \notin DOMAIN dir'
                  THEN {"nopart"} ELSE {})]

(* FileLock.acquire, first half: the lock file's directory is created if   *)
(* it is missing (ensure_directory_exists), then the lock file is opened   *)
(* (created, truncated).                                                   *)
LockOpen(w, next, p) ==
    IF \/ (p.d = "up" /\ FolderPath \in DOMAIN dir /\ dir[FolderPath] # 0)
       \/ (p \in DOMAIN dir /\ dir[p] = 0) THEN
        Finish(w, "Error") /\ UNCHANGED <<dir, data>>
    ELSE LET ino == IF p \in DOMAIN dir THEN dir[p] ELSE Fresh
             made == IF p.d = "up" THEN Bind(dir, FolderPath, 0) ELSE dir IN
        /\ dir' = Bind(made, p, ino)
        /\ lfd' = [lfd EXCEPT ![w] = ino]
        /\ Goto(w, next)
        /\ UNCHANGED <<res, wfd, held, rfd>>
        /\ data' = Gc(SetData(data, ino, <<>>))

UpLockOpen(w) ==
    /\ pc[w] = "u_lkopen"
    /\ LockOpen(w, "u_flock", LockPath(w))
    /\ UNCHANGED <<hint, off, tries, got>>

(* FileLock.acquire, second half: flock(LOCK_EX | LOCK_NB) on the open     *)
(* descriptor; the writer polls without a timeout.                         *)
UpFlock(w) ==
    /\ pc[w] = "u_flock"
    /\ IF Locked(lfd[w])
       THEN /\ lfd' = [lfd EXCEPT ![w] = 0]
            /\ Goto(w, "u_lkopen")
            /\ UNCHANGED held
       ELSE /\ held' = [held EXCEPT ![w] = TRUE]
            /\ Goto(w, "u_rename_old")
            /\ UNCHANGED lfd
    /\ after' = [after EXCEPT ![w] = IF Locked(lfd[w]) THEN after[w] ELSE Returned]
    /\ UNCHANGED <<seen, pub0>>
    /\ UNCHANGED <<dir, hint, wfd, off, tries, rfd, got, res>>
    /\ data' = Gc(data)

(* os.rename(src, dst) fails when one is a directory and the other a file, *)
(* and when dst is a directory that is not empty.                          *)
RenameOk(src, dst) ==
    /\ Exists(src)
    /\ dst \in DOMAIN dir =>
          /\ (dir[src] = 0) <=> (dir[dst] = 0)
          /\ dir[dst] = 0 => \A q \in DOMAIN dir : q.d # "old"

(* The entries of a renamed folder move with it: they are then entries of  *)
(* the directory "old" (the folder's .old name).                           *)
Moved(q) == IF q.d = "up" THEN [d |-> "old", n |-> q.n] ELSE q

Rename(src, dst) ==
    IF dir[src] = 0
    THEN LET rest == Unbind(dir, src) IN
         [q \in {Moved(r) : r \in DOMAIN rest} \cup {dst} |->
            IF q = dst THEN 0
            ELSE IF q.d = "old" THEN rest[[d |-> "up", n |-> q.n]] ELSE rest[q]]
    ELSE Bind(Unbind(dir, src), dst, dir[src])

(* if target_file.exists(): target_file.rename(old_file)                   *)
UpRenameOld(w) ==
    /\ pc[w] = "u_rename_old"
    /\ IF ~Exists(Target(w)) THEN
            Goto(w, "u_rename_temp") /\ UNCHANGED <<dir, data, res, wfd, lfd, held, rfd>>
       ELSE IF ~RenameOk(Target(w), OldPath(w)) THEN
            Finish(w, "Error") /\ UNCHANGED dir /\ data' = Gc(data)
       ELSE /\ dir' = Rename(Target(w), OldPath(w))
            /\ Goto(w, "u_rename_temp")
            /\ UNCHANGED <<res, wfd, lfd, held, rfd>>
            /\ data' = Gc(data)
    /\ UNCHANGED <<hint, off, tries, got>>

(* temp_file.rename(target_file)                                           *)
UpRenameTemp(w) ==
    /\ pc[w] = "u_rename_temp"
    /\ IF ~RenameOk(Temp(w), Target(w)) THEN
            Finish(w, "Error") /\ UNCHANGED dir /\ data' = Gc(data)
       ELSE /\ dir' = Rename(Temp(w), Target(w))
            /\ Goto(w, "u_unlink_old")
            /\ UNCHANGED <<res, wfd, lfd, held, rfd>>
            /\ data' = Gc(data)
    /\ UNCHANGED <<hint, off, tries, got>>

(* p.unlink() where p.exists(): a directory cannot be unlinked.            *)
UnlinkStep(w, next, p) ==
    IF ~Exists(p) THEN
        Goto(w, next) /\ UNCHANGED <<dir, data, res, wfd, lfd, held, rfd>>
    ELSE IF dir[p] = 0 THEN
        Finish(w, "Error") /\ UNCHANGED dir /\ data' = Gc(data)
    ELSE
        /\ dir' = Unbind(dir, p)
        /\ Goto(w, next)
        /\ UNCHANGED <<res, wfd, lfd, held, rfd>>
        /\ data' = Gc(data)

(* if target_file.exists() and old_file.exists(): old_file.unlink()        *)
UpUnlinkOld(w) ==
    /\ pc[w] = "u_unlink_old"
    /\ IF Exists(Target(w))
       THEN UnlinkStep(w, "u_unlink_lock", OldPath(w))
       ELSE Goto(w, "u_unlink_lock") /\ UNCHANGED <<dir, data, res, wfd, lfd, held, rfd>>
    /\ UNCHANGED <<hint, off, tries, got>>

(* if lock_file.exists(): lock_file.unlink()                               *)
UpUnlinkLock(w) ==
    /\ pc[w] = "u_unlink_lock"
    /\ UnlinkStep(w, "u_release", LockPath(w))
    /\ UNCHANGED <<hint, off, tries, got>>

(* The with block ends: the flock is released, the upload returns True.    *)
UpRelease(w) ==
    /\ pc[w] = "u_release"
    /\ Finish(w, "Published")
    /\ UNCHANGED <<dir, hint, off, tries, got>>
    /\ data' = Gc(data)

(* ----------------------------- download ------------------------------ *)
(* GET /rw/<file_name> arrives.                                            *)
StartDownload(w, h) ==
    /\ pc[w] = "idle"
    /\ hint' = [hint EXCEPT ![w] = h]
    /\ Goto(w, "d_check")
    /\ seen' = [seen EXCEPT ![w] = Returned]
    /\ UNCHANGED <<dir, data, wfd, off, lfd, held, tries, rfd, got, res, pub0, after>>
    /\ UNCHANGED <<gate, sawTarget>>

(* file_transfer: target_file.exists() on the sanitized name.              *)
DlCheck(w) ==
    /\ pc[w] = "d_check"
    /\ sawTarget' = [sawTarget EXCEPT ![w] = Exists(Target(w))]
    /\ IF Exists(Target(w))
       THEN Goto(w, "g_lkopen") /\ UNCHANGED <<res, wfd, lfd, held, rfd, gate>>
       ELSE Finish(w, "NotFound") /\ gate' = [gate EXCEPT ![w] = "NotFound"]
    /\ UNCHANGED <<dir, data, hint, off, tries, got>>

(* get_request_file_wait: FileLock(..., timeout=10), open the lock file.   *)
GateLockOpen(w) ==
    /\ pc[w] = "g_lkopen"
    /\ LockOpen(w, "g_flock", LockPath(w))
    /\ gate' = [gate EXCEPT ![w] = IF pc'[w] = "done" THEN "Error" ELSE "none"]
    /\ UNCHANGED <<hint, off, tries, got, sawTarget>>

(* One flock attempt of the gate; the wait is over after MaxTries failed   *)
(* attempts (filelock.Timeout, the gate returns False).                    *)
GateFlock(w) ==
    /\ pc[w] = "g_flock"
    /\ IF ~Locked(lfd[w]) THEN
            /\ held' = [held EXCEPT ![w] = TRUE]
            /\ Goto(w, "g_release")
            /\ UNCHANGED <<lfd, tries, res, wfd, rfd, gate>>
       ELSE IF tries[w] + 1 >= MaxTries THEN
            /\ Finish(w, "TimedOut")
            /\ gate' = [gate EXCEPT ![w] = "TimedOut"]
            /\ tries' = [tries EXCEPT ![w] = tries[w] + 1]
       ELSE /\ lfd' = [lfd EXCEPT ![w] = 0]
            /\ tries' = [tries EXCEPT ![w] = tries[w] + 1]
            /\ Goto(w, "g_lkopen")
            /\ UNCHANGED <<held, res, wfd, rfd, gate>>
    /\ UNCHANGED <<dir, hint, off, got, sawTarget>>
    /\ data' = Gc(data)

(* The with block of the gate ends at once: release, return True.          *)
GateRelease(w) ==
    /\ pc[w] = "g_release"
    /\ held' = [held EXCEPT ![w] = FALSE]
    /\ lfd' = [lfd EXCEPT ![w] = 0]
    /\ Goto(w, "d_open")
    /\ gate' = [gate EXCEPT ![w] = "Ready"]
    /\ UNCHANGED <<dir, hint, wfd, off, tries, rfd, got, res, sawTarget>>
    /\ data' = Gc(data)

(* send_from_directory(target_folder, file_name): the name as requested.   *)
DlOpen(w) ==
    /\ pc[w] = "d_open"
    /\ LET p == PathIn(hint[w]) IN
       IF Exists(p) /\ dir[p] # 0
       THEN /\ rfd' = [rfd EXCEPT ![w] = dir[p]]
            /\ Goto(w, "d_read")
            /\ UNCHANGED <<res, wfd, lfd, held>>
       ELSE Finish(w, "NotFound")
    /\ UNCHANGED <<dir, data, hint, off, tries, got, gate, sawTarget>>

(* The response body is read from the open file.                           *)
DlRead(w) ==
    /\ pc[w] = "d_read"
    /\ got' = [got EXCEPT ![w] = data[rfd[w]]]
    /\ Finish(w, "Sent")
    /\ UNCHANGED <<dir, hint, off, tries, gate, sawTarget>>
    /\ data' = Gc(data)

(* ======================= explore and download ========================= *)
(* The tree the explore and download routes walk.  An absolute path is the *)
(* sequence of its names from the file system root; CFD_HOME is /r.        *)
MaxSegs == 3

CfdHome == <<"r">>
SbDirs == { <<>>, <<"r">>, <<"r", "c">>, <<"e">> }
SbFiles0 == { <<"r", "c", "g">>, <<"r", "g">>, <<"e", "g">> }
Segs == {"..", "c", "e", "g"}

RECURSIVE SeqsUpTo(_, _)
SeqsUpTo(S, n) ==
    IF n = 0 THEN { <<>> }
    ELSE LET shorter == SeqsUpTo(S, n - 1)
         IN  shorter \cup {Append(q, x) : q \in shorter, x \in S}

UserPaths == SeqsUpTo(Segs, MaxSegs)

(* The dl query argument: absent (download.zip) or any string.             *)
DefaultDl == [abs |-> FALSE, segs |-> <<"download.zip">>]
DlArgs == { DefaultDl,
            [abs |-> FALSE, segs |-> <<"..", "x.zip">>],
            [abs |-> TRUE, segs |-> <<"e", "x.zip">>] }

VARIABLES
    sfiles,   \* the regular files of the tree (absolute paths)
    sreq,     \* the request being answered
    touched,  \* the file accesses of that request: [op, path]
    reply     \* its answer

sbvars == <<sfiles, sreq, touched, reply>>

IsPrefix(a, b) == Len(a) <= Len(b) /\ SubSeq(b, 1, Len(a)) = a

Parent(q) == IF q = <<>> THEN <<>> ELSE SubSeq(q, 1, Len(q) - 1)

(* os.path.normpath (send_from_directory): ".." is taken lexically.        *)
RECURSIVE Norm(_, _)
Norm(cur, segs) ==
    IF segs = <<>> THEN cur
    ELSE IF Head(segs) = ".." THEN Norm(Parent(cur), Tail(segs))
    ELSE Norm(Append(cur, Head(segs)), Tail(segs))

(* The kernel's walk of a path: every component that is stepped through    *)
(* must be a directory.                                                    *)
RECURSIVE Walk(_, _)
Walk(cur, segs) ==
    IF segs = <<>> THEN [ok |-> TRUE, p |-> cur]
    ELSE IF cur \notin SbDirs THEN [ok |-> FALSE, p |-> cur]
    ELSE IF Head(segs) = ".." THEN Walk(Parent(cur), Tail(segs))
    ELSE Walk(Append(cur, Head(segs)), Tail(segs))

IsFile(w) == w.ok /\ w.p \in sfiles
IsDir(w) == w.ok /\ w.p \in SbDirs

(* The symbolic links of the tree: /k points at CFD_HOME, /r/x at /e.       *)
SbLinks == (<<"k">> :> <<"r">>) @@ (<<"r", "x">> :> <<"e">>)

(* Path.resolve(): the names are taken left to right, a name that is a     *)
(* link is replaced by its target, ".." is the parent of what is resolved  *)
(* so far; names that do not exist are kept.                               *)
RECURSIVE Resolve(_, _)
Resolve(cur, segs) ==
    IF segs = <<>> THEN cur
    ELSE IF Head(segs) = ".." THEN Resolve(Parent(cur), Tail(segs))
    ELSE LET n == Append(cur, Head(segs)) IN
         IF n \in DOMAIN SbLinks THEN Resolve(<<>>, SbLinks[n] \o Tail(segs))
         ELSE Resolve(n, Tail(segs))

(* safe_path: (root/path).resolve().relative_to(root) does not raise; the  *)
(* root is used as it was given.                                           *)
safe_path(root, path) == IsPrefix(root, Resolve(<<>>, root \o path))

(* werkzeug safe_join: the normalized name must not be absolute nor leave  *)
(* the directory.                                                          *)
RECURSIVE NormRel(_, _)
NormRel(cur, segs) ==
    IF segs = <<>> THEN cur
    ELSE IF Head(segs) = ".."
         THEN IF cur = <<>> \/ cur[Len(cur)] = ".."
              THEN NormRel(Append(cur, ".."), Tail(segs))
              ELSE NormRel(Parent(cur), Tail(segs))
         ELSE NormRel(Append(cur, Head(segs)), Tail(segs))

SafeJoinOk(abs, segs) ==
    /\ ~abs
    /\ LET n == NormRel(<<>>, segs) IN n = <<>> \/ n[1] # ".."

Acc(op, q) == [op |-> op, path |-> q]

Under(d) == {f \in sfiles : IsPrefix(d, f)}
ChildDirs(d) == {c \in SbDirs : c # <<>> /\ Parent(c) = d}
ChildFiles(d) == {f \in sfiles : Parent(f) = d}

SbInit ==
    /\ sfiles = SbFiles0
    /\ sreq = [kind |-> "none", path |-> <<>>, dl |-> DefaultDl]
    /\ touched = {}
    /\ reply = "none"

(* explorer: GET /explore/<path>                                           *)
explorer(path) ==
    /\ sreq' = [kind |-> "explore", path |-> path, dl |-> DefaultDl]
    /\ UNCHANGED sfiles
    /\ LET w == Walk(CfdHome, path) IN
       IF ~safe_path(CfdHome, path) THEN
            touched' = {} /\ reply' = "404"
       ELSE IF IsFile(w) THEN
            touched' = {Acc("read", w.p)} /\ reply' = "file"
       ELSE LET top == IF IsDir(w) THEN w.p ELSE CfdHome IN
            /\ touched' = {Acc("list", top)}
                   \cup {Acc("stat", f) : f \in ChildFiles(top)}
                   \cup {Acc("list", c) : c \in ChildDirs(top)}
                   \cup UNION {{Acc("stat", f) : f \in Under(c)} : c \in ChildDirs(top)}
            /\ reply' = "listing"

(* download / download_base: GET /download/<path>?dl=<name>                *)
download_base(path, dl) ==
    /\ path # <<>>
    /\ sreq' = [kind |-> "download", path |-> path, dl |-> dl]
    /\ LET w == Walk(CfdHome, path)
           t == Walk(IF dl.abs THEN <<>> ELSE CfdHome, dl.segs)
           src == Under(w.p)
       IN
       IF IsFile(w) THEN
            /\ UNCHANGED sfiles
            /\ IF SafeJoinOk(FALSE, path) /\ Norm(CfdHome, path) \in sfiles
               THEN touched' = {Acc("stat", w.p), Acc("read", Norm(CfdHome, path))}
                    /\ reply' = "file"
               ELSE touched' = {Acc("stat", w.p)} /\ reply' = "404"
       ELSE IF IsDir(w) THEN
            IF src = {} \/ ~t.ok \/ t.p \in SbDirs THEN
                /\ UNCHANGED sfiles
                /\ touched' = {Acc("list", w.p)}
                /\ reply' = "404"
            ELSE IF SafeJoinOk(dl.abs, dl.segs) THEN
                /\ sfiles' = sfiles \ {t.p}
                /\ touched' = {Acc("list", w.p), Acc("create", t.p), Acc("delete", t.p)}
                                \cup {Acc("read", f) : f \in src \cup {t.p}}
                /\ reply' = "zip"
            ELSE
                /\ sfiles' = sfiles \cup {t.p}
                /\ touched' = {Acc("list", w.p), Acc("create", t.p)}
                                \cup {Acc("read", f) : f \in src}
                /\ reply' = "404"
       ELSE /\ UNCHANGED sfiles
            /\ touched' = {}
            /\ reply' = "404"

(* ----------------------------- safe_path ------------------------------ *)
(* CFD_HOME as the environment may give it: /r, the link /k to it, or the  *)
(* spelling /r/../r; the paths of the requests use the names below.        *)
Roots == { <<"r">>, <<"k">>, <<"r", "..", "r">> }
RSegs == {"..", "c", "x", "g"}
RPaths == SeqsUpTo(RSegs, MaxSegs)

VARIABLES
    rroot,    \* the root of this server
    rpath,    \* the path of the last request
    rok       \* what safe_path answered

rvars == <<rroot, rpath, rok>>

RInit ==
    /\ rroot \in Roots
    /\ rpath = <<>>
    /\ rok = safe_path(rroot, <<>>)

CheckPath(path) ==
    /\ rpath' = path
    /\ rok' = safe_path(rroot, path)
    /\ UNCHANGED rroot

(* ============================ case sweep ============================== *)
(* The tree under CFD_HOME that remove_old_folders sweeps.  Paths are      *)
(* relative to the root (<<>>); times are in days.  The uploads folder is  *)
(* CFD_HOME/uploads (FolderName) unless CFD_UPLOAD_FOLDER is set.          *)
MaxNow == 4
MaxAge == 2

Marker == "controlDict"
TreeFiles == { <<"a", "s", Marker>>, <<"a", "l">>,
               <<"a", "b", "s", Marker>>, <<"p", "q", "s", Marker>>,
               <<"s", Marker>> }
TreeLinks == { <<"a", "l">> }

VARIABLES
    tfiles,   \* file path -> modification time
    tdirs,    \* the directories, <<>> is the root
    now,      \* the clock
    snap,     \* history: the tree when the last sweep started
    swres     \* outcome of the last sweep: "none", "ok", "raised"

swvars == <<tfiles, tdirs, now, snap, swres>>

Prefixes(f) == {SubSeq(f, 1, k) : k \in 0..(Len(f) - 1)}
DirsOf(fs) == UNION {Prefixes(f) : f \in fs}
FilesUnder(fs, d) == {f \in DOMAIN fs : IsPrefix(d, f)}
Max(S) == CHOOSE x \in S : \A y \in S : y <= x

NoSnap == [files |-> << >>, dirs |-> {}, now |-> 0]

SwInit ==
    /\ now = MaxAge + 1
    /\ \E present \in SUBSET TreeFiles :
         /\ tfiles \in [present -> {1, now}]
         /\ tdirs = DirsOf(present) \cup {<<>>, <<"e">>, FolderName}
    /\ snap = NoSnap
    /\ swres = "none"

(* find_openfoam_cases: the directory two levels above each controlDict    *)
(* file, unless that is not below the root.                                *)
find_openfoam_cases(fs) ==
    {Parent(Parent(f)) : f \in {g \in DOMAIN fs : g[Len(g)] = Marker /\ Len(g) >= 2}}

Min(S) == CHOOSE x \in S : \A y \in S : x <= y

(* A sweep that ages a directory by its oldest file.                       *)
dir_age_oldest(fs, path, t) ==
    LET t_files == {f \in FilesUnder(fs, path) : f \notin TreeLinks /\ fs[f] # 0}
    IN  t - (IF t_files = {} THEN 0 ELSE Min({fs[f] : f \in t_files}))

(* dir_age: now minus the newest mtime of the non-link files below path,   *)
(* 0 standing for "no such file".                                          *)
dir_age(fs, path, t) ==
    LET t_files == {f \in FilesUnder(fs, path) : f \notin TreeLinks /\ fs[f] # 0}
    IN  t - (IF t_files = {} THEN 0 ELSE Max({fs[f] : f \in t_files}))

(* shutil.rmtree(d)                                                        *)
RmTree(tr, d) ==
    [f |-> [g \in DOMAIN tr.f \ FilesUnder(tr.f, d) |-> tr.f[g]],
     d |-> {x \in tr.d : ~IsPrefix(d, x)}]

(* The loop over case_dirs, in the order the scan produced them; a failed  *)
(* rmtree (the directory is gone already) is printed and skipped.          *)
RECURSIVE RemoveLoop(_, _, _)
RemoveLoop(order, tr, t) ==
    IF order = <<>> THEN tr
    ELSE LET c == Head(order) IN
         IF dir_age(tr.f, c, t) > MaxAge /\ c \in tr.d
         THEN RemoveLoop(Tail(order), RmTree(tr, c), t)
         ELSE RemoveLoop(Tail(order), tr, t)

(* Cleanup of the empty top level folders.                                 *)
EmptyTop(tr) ==
    {d \in tr.d : /\ Len(d) = 1
                  /\ FilesUnder(tr.f, d) = {}
                  /\ \A x \in tr.d : IsPrefix(d, x) => x = d}

RECURSIVE Orders(_)
Orders(S) ==
    IF S = {} THEN { <<>> }
    ELSE UNION {{<<x>> \o o : o \in Orders(S \ {x})} : x \in S}

(* remove_old_folders(CFD_HOME, hours=48)                                  *)
remove_old_folders ==
    \E order \in Orders(find_openfoam_cases(tfiles)) :
        LET tr == RemoveLoop(order, [f |-> tfiles, d |-> tdirs], now) IN
        /\ snap' = [files |-> tfiles, dirs |-> tdirs, now |-> now]
        /\ tfiles' = tr.f
        /\ tdirs' = IF <<>> \in tr.d THEN tr.d \ EmptyTop(tr) ELSE tr.d
        /\ swres' = IF <<>> \in tr.d THEN "ok" ELSE "raised"
        /\ UNCHANGED now

(* A day passes.                                                           *)
Tick ==
    /\ now < MaxNow
    /\ now' = now + 1
    /\ snap' = NoSnap
    /\ swres' = "none"
    /\ UNCHANGED <<tfiles, tdirs>>

(* The solver writes a file of the tree.                                   *)
Touch(f) ==
    /\ f \in DOMAIN tfiles
    /\ f \notin TreeLinks
    /\ tfiles[f] # now
    /\ tfiles' = [tfiles EXCEPT ![f] = now]
    /\ snap' = NoSnap
    /\ swres' = "none"
    /\ UNCHANGED <<tdirs, now>>

(* ============================ file sweep ============================== *)
(* The uploads folder as remove_old_files sees it: the entries directly in  *)
(* the folder, each a regular file, a symbolic link to a file or a          *)
(* directory, with its modification time in days (shared clock: now).       *)
Sweepers == {1, 2}

UpName == <<"a", ".", "t">>
LinkName == <<"l">>
SubName == <<"d">>
OrphanNames == {with_suffix(PathIn(UpName), s).n : s \in {PartSuffix, LockSuffix}}
RegularNames == {UpName} \cup OrphanNames

VARIABLES
    ufiles,   \* entry name -> [kind, mtime]
    spc,      \* sweeper -> position in remove_old_files
    snow,     \* sweeper -> its reading of the clock
    stodo,    \* sweeper -> the listed entries not yet visited
    scur,     \* sweeper -> the entry it is about to unlink
    sres,     \* sweeper -> outcome of its last run: "none", "ok", "raised"
    swept,    \* history: the names unlinked by sweeps
    runs      \* history: two runs in a row without a write in between

fvars == <<ufiles, spc, snow, stodo, scur, sres, swept, runs>>

NoRuns == [cand |-> 0, first |-> 0, del1 |-> {}, second |-> 0, t2 |-> 0,
           del2 |-> {}, over |-> FALSE]

Entry(k, m) == [kind |-> k, mtime |-> m]

FInit ==
    /\ \E regs \in SUBSET RegularNames :
         \E m \in [regs -> {1, now}] :
            ufiles = [n \in regs \cup {LinkName, SubName} |->
                        IF n \in regs THEN Entry("file", m[n])
                        ELSE IF n = LinkName THEN Entry("link", 1)
                        ELSE Entry("dir", 1)]
    /\ spc = [s \in Sweepers |-> "idle"]
    /\ snow = [s \in Sweepers |-> 0]
    /\ stodo = [s \in Sweepers |-> {}]
    /\ scur = [s \in Sweepers |-> <<>>]
    /\ sres = [s \in Sweepers |-> "none"]
    /\ swept = {}
    /\ runs = NoRuns

(* A listing that yields one regular file only.                             *)
iterdir_first(fs) ==
    LET regs == {n \in DOMAIN fs : fs[n].kind = "file"}
    IN  IF regs = {} THEN {} ELSE {CHOOSE n \in regs : TRUE}

(* path.iterdir(): the names in the folder when the loop starts.            *)
iterdir(fs) == DOMAIN fs

(* f.is_file() follows links; safe_getmtime gives None for a link; the     *)
(* test is "mtime and (now - mtime) > max_age".                             *)
Expired(fs, n, t) ==
    /\ n \in DOMAIN fs
    /\ fs[n].kind = "file"
    /\ fs[n].mtime # 0
    /\ t - fs[n].mtime > MaxAge

Running(s) == spc[s] \in {"loop", "unlink"}

(* A cleanup request enters remove_old_files (one request per sweeper):     *)
(* the clock is read, the folder is listed.                                 *)
SfStart(s) ==
    /\ spc[s] = "idle"
    /\ spc' = [spc EXCEPT ![s] = "loop"]
    /\ snow' = [snow EXCEPT ![s] = now]
    /\ stodo' = [stodo EXCEPT ![s] = iterdir(ufiles)]
    /\ sres' = [sres EXCEPT ![s] = "none"]
    /\ runs' = IF \E o \in Sweepers \ {s} : Running(o) THEN NoRuns
               ELSE IF runs.first # 0 /\ runs.second = 0
               THEN [runs EXCEPT !.second = s, !.t2 = now]
               ELSE [NoRuns EXCEPT !.cand = s]
    /\ UNCHANGED <<ufiles, scur, swept, now>>

(* The loop takes the next listed entry and tests it.                       *)
SfVisit(s) ==
    /\ spc[s] = "loop"
    /\ IF stodo[s] = {} THEN
            /\ spc' = [spc EXCEPT ![s] = "done"]
            /\ sres' = [sres EXCEPT ![s] = "ok"]
            /\ runs' = IF runs.cand = s /\ runs.first = 0
                       THEN [runs EXCEPT !.first = snow[s]]
                       ELSE IF runs.second = s THEN [runs EXCEPT !.over = TRUE]
                       ELSE runs
            /\ UNCHANGED <<stodo, scur>>
       ELSE \E n \in stodo[s] :
            /\ stodo' = [stodo EXCEPT ![s] = stodo[s] \ {n}]
            /\ IF Expired(ufiles, n, snow[s])
               THEN /\ spc' = [spc EXCEPT ![s] = "unlink"]
                    /\ scur' = [scur EXCEPT ![s] = n]
               ELSE UNCHANGED <<spc, scur>>
            /\ UNCHANGED <<sres, runs>>
    /\ UNCHANGED <<ufiles, snow, swept, now>>

(* f.unlink(): FileNotFoundError when the entry is gone, and nothing in    *)
(* remove_old_files catches it.                                             *)
SfUnlink(s) ==
    /\ spc[s] = "unlink"
    /\ IF scur[s] \in DOMAIN ufiles THEN
            /\ ufiles' = [n \in DOMAIN ufiles \ {scur[s]} |-> ufiles[n]]
            /\ swept' = swept \cup {scur[s]}
            /\ spc' = [spc EXCEPT ![s] = "loop"]
            /\ runs' = IF runs.cand = s /\ runs.first = 0
                       THEN [runs EXCEPT !.del1 = @ \cup {scur[s]}]
                       ELSE IF runs.second = s
                       THEN [runs EXCEPT !.del2 = @ \cup {[n |-> scur[s], m |-> ufiles[scur[s]].mtime]}]
                       ELSE runs
            /\ UNCHANGED <<sres, stodo>>
       ELSE /\ spc' = [spc EXCEPT ![s] = "done"]
            /\ sres' = [sres EXCEPT ![s] = "raised"]
            /\ stodo' = [stodo EXCEPT ![s] = {}]
            /\ runs' = IF s \in {runs.cand, runs.second} THEN NoRuns ELSE runs
            /\ UNCHANGED <<ufiles, swept>>
    /\ scur' = [scur EXCEPT ![s] = <<>>]
    /\ UNCHANGED <<snow, now>>

(* A day passes.                                                            *)
FTick ==
    /\ now < MaxNow
    /\ now' = now + 1
    /\ UNCHANGED fvars

(* A transfer writes a published file of the folder; the orphaned shadow    *)
(* files of ended transfers are written no more.                            *)
FWrite(n) ==
    /\ n \in DOMAIN ufiles
    /\ n \notin OrphanNames
    /\ ufiles[n].kind = "file"
    /\ ufiles[n].mtime # now
    /\ ufiles' = [ufiles EXCEPT ![n].mtime = now]
    /\ runs' = NoRuns
    /\ UNCHANGED <<spc, snow, stodo, scur, sres, swept, now>>

(* ========================== specifications ============================ *)
vars == <<tvars, sbvars, swvars, fvars, rvars>>

SbIdle ==
    /\ sfiles = SbFiles0
    /\ sreq = [kind |-> "none", path |-> <<>>, dl |-> DefaultDl]
    /\ touched = {}
    /\ reply = "none"

SwIdle ==
    /\ tfiles = << >>
    /\ tdirs = {<<>>}
    /\ now = MaxAge + 1
    /\ snap = NoSnap
    /\ swres = "none"

FIdle ==
    /\ ufiles = << >>
    /\ spc = [s \in Sweepers |-> "idle"]
    /\ snow = [s \in Sweepers |-> 0]
    /\ stodo = [s \in Sweepers |-> {}]
    /\ scur = [s \in Sweepers |-> <<>>]
    /\ sres = [s \in Sweepers |-> "none"]
    /\ swept = {}
    /\ runs = NoRuns

RIdle ==
    /\ rroot = CfdHome
    /\ rpath = <<>>
    /\ rok = TRUE

Init == TInit /\ SbIdle /\ SwIdle /\ FIdle /\ RIdle

Next ==
    \/ \E w \in Uploaders : \E h \in UpHints :
          StartUpload(w, h) /\ UNCHANGED <<clobber, sbvars, swvars, fvars, rvars>>
    \/ \E w \in Uploaders :
          UpCheck(w) /\ UNCHANGED <<clobber, hist, ghist, sbvars, swvars, fvars, rvars>>
    \/ \E w \in Uploaders :
          UpOpen(w) /\ StreamTrace(w) /\ UNCHANGED <<hist, ghist, sbvars, swvars, fvars, rvars>>
    \/ \E w \in Uploaders :
          UpWrite(w) /\ StreamTrace(w) /\ UNCHANGED <<hist, ghist, sbvars, swvars, fvars, rvars>>
    \/ \E w \in Uploaders :
          UpFail(w) /\ StreamTrace(w) /\ UNCHANGED <<hist, ghist, sbvars, swvars, fvars, rvars>>
    \/ \E w \in Uploaders :
          UpLockOpen(w) /\ UNCHANGED <<clobber, hist, ghist, sbvars, swvars, fvars, rvars>>
    \/ \E w \in Uploaders :
          UpFlock(w) /\ UNCHANGED <<clobber, ghist, sbvars, swvars, fvars, rvars>>
    \/ \E w \in Uploaders :
          UpRenameOld(w) /\ UNCHANGED <<clobber, hist, ghist, sbvars, swvars, fvars, rvars>>
    \/ \E w \in Uploaders :
          UpRenameTemp(w) /\ UNCHANGED <<clobber, hist, ghist, sbvars, swvars, fvars, rvars>>
    \/ \E w \in Uploaders :
          UpUnlinkOld(w) /\ UNCHANGED <<clobber, hist, ghist, sbvars, swvars, fvars, rvars>>
    \/ \E w \in Uploaders :
          UpUnlinkLock(w) /\ UNCHANGED <<clobber, hist, ghist, sbvars, swvars, fvars, rvars>>
    \/ \E w \in Uploaders :
          UpRelease(w) /\ UNCHANGED <<clobber, hist, ghist, sbvars, swvars, fvars, rvars>>
    \/ \E w \in Downloaders : \E h \in DlHints :
          StartDownload(w, h) /\ UNCHANGED <<clobber, sbvars, swvars, fvars, rvars>>
    \/ \E w \in Downloaders :
          DlCheck(w) /\ UNCHANGED <<clobber, hist, sbvars, swvars, fvars, rvars>>
    \/ \E w \in Downloaders :
          GateLockOpen(w) /\ UNCHANGED <<clobber, hist, sbvars, swvars, fvars, rvars>>
    \/ \E w \in Downloaders :
          GateFlock(w) /\ UNCHANGED <<clobber, hist, sbvars, swvars, fvars, rvars>>
    \/ \E w \in Downloaders :
          GateRelease(w) /\ UNCHANGED <<clobber, hist, sbvars, swvars, fvars, rvars>>
    \/ \E w \in Downloaders :
          DlOpen(w) /\ UNCHANGED <<clobber, hist, sbvars, swvars, fvars, rvars>>
    \/ \E w \in Downloaders :
          DlRead(w) /\ UNCHANGED <<clobber, hist, sbvars, swvars, fvars, rvars>>

Spec == Init /\ [][Next]_vars

SandboxInit == TInit /\ SbInit /\ SwIdle /\ FIdle /\ RIdle

SandboxNext ==
    \/ \E path \in UserPaths : explorer(path) /\ UNCHANGED <<tvars, swvars, fvars, rvars>>
    \/ \E path \in UserPaths : \E dl \in DlArgs :
          download_base(path, dl) /\ UNCHANGED <<tvars, swvars, fvars, rvars>>

SandboxSpec == SandboxInit /\ [][SandboxNext]_vars

SweepInit == TInit /\ SbIdle /\ SwInit /\ FIdle /\ RIdle

SweepNext ==
    \/ remove_old_folders /\ UNCHANGED <<tvars, sbvars, fvars, rvars>>
    \/ Tick /\ UNCHANGED <<tvars, sbvars, fvars, rvars>>
    \/ \E f \in TreeFiles : Touch(f) /\ UNCHANGED <<tvars, sbvars, fvars, rvars>>

SweepSpec == SweepInit /\ [][SweepNext]_vars

FilesInit == TInit /\ SbIdle /\ SwIdle /\ FInit /\ RIdle

FilesNext ==
    \/ \E s \in Sweepers : SfStart(s) /\ UNCHANGED <<tvars, sbvars, tfiles, tdirs, snap, swres, rvars>>
    \/ \E s \in Sweepers : SfVisit(s) /\ UNCHANGED <<tvars, sbvars, tfiles, tdirs, snap, swres, rvars>>
    \/ \E s \in Sweepers : SfUnlink(s) /\ UNCHANGED <<tvars, sbvars, tfiles, tdirs, snap, swres, rvars>>
    \/ FTick /\ UNCHANGED <<tvars, sbvars, tfiles, tdirs, snap, swres, rvars>>
    \/ \E n \in RegularNames : FWrite(n) /\ UNCHANGED <<tvars, sbvars, tfiles, tdirs, snap, swres, rvars>>

FilesSpec == FilesInit /\ [][FilesNext]_vars

ResolveInit == TInit /\ SbIdle /\ SwIdle /\ FIdle /\ RInit

ResolveNext ==
    \E path \in RPaths : CheckPath(path) /\ UNCHANGED <<tvars, sbvars, swvars, fvars>>

ResolveSpec == ResolveInit /\ [][ResolveNext]_vars

(* ------------------------------ claims -------------------------------- *)
Started(u) == pc[u] # "idle"
ValidName(u) == Started(u) => FileName(u) # <<>>

(* C1: every download that passed the readiness gate received the complete *)
(* body of one upload of the name it asked for, never a truncated, partly  *)
(* written or mixed body.                                                  *)
DownloadsAreComplete ==
    \A d \in Downloaders :
        (res[d] = "Sent" /\ \A v \in Uploaders : Started(v) => FileName(v) = hint[d]) =>
            \E u \in Uploaders :
                Started(u) /\ FileName(u) = FileName(d) /\ got[d] = Body(u)

(* C2: two uploads of one name, the second taking the lock after the first *)
(* released it: once both have returned, the name holds the second body.   *)
LaterUploadWins ==
    \A u1 \in Uploaders : \A u2 \in Uploaders \ {u1} :
        ( /\ pc[u1] = "done" /\ pc[u2] = "done"
          /\ res[u1] = "Published"
          /\ u1 \in after[u2]
          /\ FileName(u1) = FileName(u2)
          /\ FileName(u1) # <<>> )
        => Content(Target(u2)) = Body(u2)

(* C3: a download that arrives after the upload of its name returned       *)
(* Published yields that upload's body, whatever an upload of another      *)
(* (valid) name does meanwhile.                                            *)
RoundTrip ==
    \A d \in Downloaders : \A u \in Uploaders :
        ( /\ pc[d] = "done"
          /\ u \in seen[d]
          /\ res[u] = "Published"
          /\ hint[d] = FileName(u)
          /\ \A v \in Uploaders \ {u} : ValidName(v) /\ FileName(v) # FileName(u) )
        => (res[d] = "Sent" /\ got[d] = Body(u))

(* C4: at most one worker at a time is between acquiring and releasing the *)
(* lock of a name.                                                         *)
MutexPerName ==
    \A w1 \in Workers : \A w2 \in Workers \ {w1} :
        (held[w1] /\ held[w2]) => Target(w1) # Target(w2)

(* C5: every file or directory a request reads, lists, creates or deletes  *)
(* is CFD_HOME or lies below it, and a request whose path resolves outside *)
(* CFD_HOME does none of these and is answered 404.                        *)
FileOps == {"read", "list", "create", "delete"}

SandboxHolds ==
    /\ \A t \in touched : t.op \in FileOps => IsPrefix(CfdHome, t.path)
    /\ (sreq.kind # "none" /\ ~safe_path(CfdHome, sreq.path))
          => ({t \in touched : t.op \in FileOps} = {} /\ reply = "404")

(* C6: with no other upload in flight, an upload whose sanitized name is   *)
(* published on arrival returns Rejected and leaves the published content. *)
ConflictRejected ==
    \A w \in Uploaders :
        ( /\ pc[w] = "done"
          /\ pub0[w] # NoContent
          /\ \A v \in Uploaders : ValidName(v)
          /\ \A v \in Uploaders \ {w} : v \in seen[w] \/ pc[v] = "idle" )
        => (res[w] = "Rejected" /\ Content(Target(w)) = pub0[w])

(* C7: an upload whose name hint is absent, empty or sanitizes to nothing  *)
(* creates, renames and deletes no file or directory.                      *)
BadHint(h) == h = NoFile \/ secure_filename(h) = <<>>

InvalidNameNoEffect ==
    [][ \A w \in Uploaders :
          (Started(w) /\ BadHint(hint[w]) /\ pc'[w] # pc[w]) => dir' = dir ]_vars

(* C8: the gate makes at most MaxTries lock attempts and then has returned; *)
(* it returns NotFound iff the target was absent when checked, TimedOut    *)
(* iff the target was there and every attempt failed, Ready otherwise, and *)
(* holds no lock once it has returned.                                     *)
GateVerdict ==
    \A d \in Downloaders :
        /\ tries[d] <= MaxTries
        /\ (tries[d] = MaxTries => gate[d] # "none")
        /\ gate[d] # "none" =>
              /\ ~held[d]
              /\ gate[d] = "NotFound" <=> ~sawTarget[d]
              /\ gate[d] = "TimedOut" <=> (sawTarget[d] /\ tries[d] = MaxTries)
              /\ gate[d] = "Ready" <=> (sawTarget[d] /\ tries[d] < MaxTries)

(* C9: once a name is published it stays visible under its final name     *)
(* with the complete body of one of its uploads, in every state.           *)
PublishedStaysVisible ==
    \A u \in Uploaders :
        ( /\ res[u] = "Published"
          /\ \A v \in Uploaders : ValidName(v) )
        => \E v \in Uploaders :
              Started(v) /\ FileName(v) = FileName(u) /\ Content(Target(u)) = Body(v)

(* C10: a sweep deletes a case directory iff the youngest regular file     *)
(* below it is older than MaxAge, and every other directory it deletes     *)
(* lies in a deleted case directory or is a top level folder that the pass *)
(* left empty.                                                             *)
RegularUnder(c) == {f \in FilesUnder(snap.files, c) : f \notin TreeLinks}
Youngest(c) == Max({snap.files[f] : f \in RegularUnder(c)})
SweptCases == {c \in find_openfoam_cases(snap.files) : c \notin tdirs}

SweepDeletesOnlyOld ==
    swres # "none" =>
      /\ \A c \in find_openfoam_cases(snap.files) :
            RegularUnder(c) # {} =>
               (c \notin tdirs <=> snap.now - Youngest(c) > MaxAge)
      /\ \A d \in snap.dirs \ tdirs :
            \/ \E c \in SweptCases : IsPrefix(c, d)
            \/ /\ Len(d) = 1
               /\ \A x \in (snap.dirs \cup DOMAIN snap.files) \ {d} :
                     IsPrefix(d, x) => \E c \in SweptCases : IsPrefix(c, x)

SweepKeepsYoungCase ==
    /\ swres = "ok"
    /\ SweptCases # {}
    /\ \E c \in find_openfoam_cases(snap.files) :
          /\ c \in tdirs
          /\ RegularUnder(c) # {}
          /\ snap.now - Youngest(c) <= MaxAge
    /\ \E d \in snap.dirs \ tdirs : Len(d) = 1 /\ d \notin SweptCases

(* C11 (as stated): of two remove_old_files runs in a row with no write to  *)
(* the folder in between, the second unlinks nothing.                       *)
SecondSweepDeletesNothing == runs.del2 = {}

(* C11 (amended): the second of two such runs unlinks nothing when it reads *)
(* the same clock value as the first, and whatever it unlinks was not yet   *)
(* past MaxAge at the first run's reading.                                  *)
SecondSweepDeletesOnlyNewlyExpired ==
    /\ runs.t2 = runs.first => runs.del2 = {}
    /\ \A d \in runs.del2 :
          runs.first - d.m <= MaxAge /\ runs.t2 - d.m > MaxAge

SecondSweepSameClock ==
    /\ runs.over
    /\ runs.t2 = runs.first
    /\ runs.del1 # {}
    /\ \E n \in DOMAIN ufiles : ufiles[n].kind = "file"

(* C12: a remove_old_files run never raises: when an entry it decided to    *)
(* unlink is gone already, it goes on with the remaining entries and ends   *)
(* normally, having unlinked every other listed entry past MaxAge.          *)
SweepFailuresContained ==
    \A s \in Sweepers :
        /\ sres[s] # "raised"
        /\ spc[s] = "done" => \A n \in DOMAIN ufiles : ~Expired(ufiles, n, snow[s])

(* C13: an upload of a valid name whose stream copy failed has changed      *)
(* nothing under its final name, holds no lock, and its .part file is       *)
(* there when the copy fails.                                               *)
StreamFailurePublishesNothing ==
    \A w \in Uploaders :
        (res[w] = "Failed" /\ FileName(w) # <<>>) =>
            (clobber[w] = {} /\ ~held[w] /\ lfd[w] = 0)

(* C14: safe_path accepts a path exactly when the canonical form of        *)
(* root/path is the canonical root or lies below it, for every root the     *)
(* server may be given, a link to the directory or a spelling with ".."     *)
(* included.                                                                *)
SandboxCheckExact ==
    rok <=> IsPrefix(Resolve(<<>>, rroot), Resolve(<<>>, rroot \o rpath))

(* C15 (its safety part): an upload of a valid name that has written its    *)
(* whole body to the .part file does not end in an error: when it has       *)
(* returned, it returned Published.                                         *)
StreamedUploadPublishes ==
    \A w \in Uploaders :
        ( /\ pc[w] = "done"
          /\ hint[w] # NoFile
          /\ FileName(w) # <<>>
          /\ off[w] = BodyLen )
        => res[w] = "Published"

(* C16: while a worker holds the lock of a name, at most one of the target  *)
(* file and its .old file holds the complete body of an upload (no upload   *)
(* being named like a shadow file).                                         *)
Complete(p) == \E u \in Uploaders : Started(u) /\ Content(p) = Body(u)

EndsWith(n, suffix) ==
    /\ Len(n) > Len(suffix)
    /\ SubSeq(n, Len(n) - Len(suffix) + 1, Len(n)) = suffix

IsShadow(n) == \E suffix \in {PartSuffix, LockSuffix, OldSuffix} : EndsWith(n, suffix)

OneOfTargetAndOld ==
    \A w \in Workers :
        ( /\ held[w]
          /\ \A u \in Uploaders : Started(u) => (FileName(u) # <<>> /\ ~IsShadow(FileName(u))) )
        => ~(Complete(Target(w)) /\ Complete(OldPath(w)))

(* C17: when no request is in progress and every upload so far returned     *)
(* Published and every download gate gave its verdict, the uploads folder   *)
(* holds no .part, .lock or .old file.                                      *)
NoShadowFilesAtRest ==
    ( /\ \A w \in Workers : pc[w] \in {"idle", "done"}
      /\ \A u \in Uploaders : Started(u) => res[u] = "Published"
      /\ \A d \in Downloaders : Started(d) => gate[d] \in {"Ready", "NotFound", "TimedOut"} )
    => \A p \in DOMAIN dir : p.d = "up" => ~IsShadow(p.n)

(* C19: no step of an upload changes, renames or removes the file published *)
(* under another name by another upload (all names valid and none named     *)
(* like a shadow file).                                                     *)
UploadFrame ==
    [][ \A u \in Uploaders : \A v \in Uploaders \ {u} :
          ( /\ Started(u)
            /\ pc'[u] # pc[u] \/ off'[u] # off[u]
            /\ res[v] = "Published"
            /\ FileName(v) # FileName(u)
            /\ \A x \in {u, v} : FileName(x) # <<>> /\ ~IsShadow(FileName(x))
            /\ Content(Target(v)) # NoContent )
          => ContentIn(dir', data', Target(v)) = Content(Target(v)) ]_vars

(* C18: no sweep unlinks a .part, .lock or .old file of the uploads folder, *)
(* whatever its age.                                                        *)
SweepSparesShadowFiles == \A n \in swept : ~IsShadow(n)

(* C20: after every remove_old_folders run the root directory and the       *)
(* uploads folder directly under it still exist.                            *)
RootAndUploadsSurvive == <<>> \in tdirs /\ FolderName \in tdirs

====
